---- MODULE Spec2Model ----
(***************************************************************************)
(* BaseBuilder of lavas-core-vue (core/builder/base-builder.js).           *)
(*                                                                         *)
(* The builder assembles the webpack configuration of the SPA bundle:      *)
(* createSPAConfig adds an HtmlWebpackPlugin (addHtmlPlugin) and, when the *)
(* skeleton is enabled, a SkeletonWebpackPlugin (addSkeletonPlugin) after  *)
(* validating the skeleton routes (validateSkeletonRoutes).                *)
(*                                                                         *)
(* Every `await` of the source is a suspension point: one action of the    *)
(* model is the synchronous code run between two suspension points.        *)
(* Paths are sequences of segments: join(a, b) is concatenation, a missing *)
(* or empty componentPath is the empty sequence.                           *)
(***************************************************************************)
EXTENDS Integers, Sequences, FiniteSets, TLC

\* ------------------------------------------------------------- bounds
MaxCalls == 2
MaxRoutes == 2
MaxConfigs == 2
MaxCallbacks == 1
MaxVersion == 2

VARIABLES
    disk,            \* component files that exist on disk (pathExists)
    alias,           \* resolve.alias of the webpack client config
    tmplExists,      \* whether rootDir/core/<TEMPLATE_HTML> exists
    tmplContent,     \* the version of the custom template's content
    lavasTmpl,       \* .lavas/<TEMPLATE_HTML>: 0 when absent, else the version written
    lavasSkeleton,   \* .lavas/skeleton.js: <<>> when absent, else <<"skeleton.js">> \o the rendered components
    configs,         \* the config objects the core has handed to init
    cur,             \* this.config: an index into configs
    skeletonEnabled, \* this.skeletonEnabled
    watchers,        \* number of 'change' callbacks registered by addWatcher
    cbs,             \* the 'change' callbacks in flight
    call             \* the createSPAConfig calls

vars == <<disk, alias, tmplExists, tmplContent, lavasTmpl, lavasSkeleton, configs, cur,
          skeletonEnabled, watchers, cbs, call>>

Procs == 1..MaxCalls

\* ------------------------------------------------------------- paths
rootDir == <<"rootDir">>

join(a, b) == a \o b

AliasKey == "@"

Aliases == { <<>>, <<"src">> }

\* al is <<>> for an alias map without a matching key, else the directory
\* the key "@" stands for.
resolveAliasPath(al, path) ==
    IF al # <<>> /\ path # <<>> /\ Head(path) = AliasKey
    THEN join(al, Tail(path))
    ELSE path

basename(path) == IF path = <<>> THEN "" ELSE path[Len(path)]

DEFAULT_SKELETON_PATH == <<"@", "core/Skeleton.vue">>

CompPaths == { <<>>, DEFAULT_SKELETON_PATH, <<"B.vue">> }

DiskUniverse ==
    { join(rootDir, DEFAULT_SKELETON_PATH), <<"src", "core/Skeleton.vue">> }

\* ------------------------------------------------------------- configs
RouteNames == <<"/r1", "/r2", "/r3", "/r4">>

Route(i, cp) == [path |-> RouteNames[i], componentPath |-> cp, componentName |-> ""]

RouteLists ==
    UNION { { [i \in 1..n |-> Route(i, f[i])] : f \in [1..n -> CompPaths] } : n \in 0..MaxRoutes }

Configs ==
    { [ssr |-> TRUE, skeleton |-> "undefined", routes |-> <<>>] }
    \cup { [ssr |-> FALSE, skeleton |-> "undefined", routes |-> <<>>] }
    \cup { [ssr |-> FALSE, skeleton |-> "off", routes |-> <<>>] }
    \cup { [ssr |-> FALSE, skeleton |-> "on", routes |-> rs] : rs \in RouteLists }

DefaultRoutes ==
    << [path |-> "*", componentPath |-> DEFAULT_SKELETON_PATH, componentName |-> ""] >>

\* ------------------------------------------------------------- values
NoError == <<>>

RequiredMsg(route) == <<"componentPath is required for", route.path>>

NotExistedMsg(route) == <<"is not existed">> \o route.componentPath

ClientPlugins == <<"client">>

ClientEntry == <<"DEFAULT_ENTRY_NAME", "./core/entry-client.js">>

IdleCall ==
    [pc |-> "idle", watcherEnabled |-> FALSE, cfg |-> 0, skCfg |-> 0,
     plugins |-> <<>>, entry |-> {}, tmplRead |-> 0, skRead |-> <<>>,
     i |-> 0, j |-> 0, resolvedPaths |-> <<>>, error |-> NoError,
     entryRoutes |-> <<>>, validations |-> 0, logged |-> <<>>, result |-> "none",
     wroteTmpl |-> FALSE, wroteSkeleton |-> FALSE, addedWatcher |-> FALSE,
     markedSupported |-> FALSE]

\* The call settles: its promise resolves with spaConfig or rejects, and its
\* local variables are gone.
Settle(c, pc, result) ==
    [c EXCEPT !.pc = pc, !.result = result, !.tmplRead = 0, !.skRead = <<>>,
              !.i = 0, !.j = 0, !.resolvedPaths = <<>>, !.entryRoutes = <<>>]

InFlight(p) == call[p].pc \notin {"idle", "resolved", "rejected"}

Init ==
    /\ disk \in SUBSET DiskUniverse
    /\ alias \in Aliases
    /\ tmplExists \in BOOLEAN
    /\ tmplContent = 1
    /\ lavasTmpl = 0
    /\ lavasSkeleton = <<>>
    /\ \E c \in Configs : configs = <<c>>
    /\ cur = 1
    /\ skeletonEnabled = FALSE
    /\ watchers = 0
    /\ cbs = <<>>
    /\ call = [p \in Procs |-> IdleCall]

\* Mutant of init: the rebuild forgets that the skeleton was supported.
initResets(c) ==
    /\ Len(configs) < MaxConfigs
    /\ configs' = Append(configs, c)
    /\ cur' = Len(configs) + 1
    /\ skeletonEnabled' = FALSE
    /\ UNCHANGED <<disk, alias, tmplExists, tmplContent, lavasTmpl, lavasSkeleton,
                   watchers, cbs, call>>

\* init(config), called again by rebuild in dev mode
init(c) ==
    /\ Len(configs) < MaxConfigs
    /\ configs' = Append(configs, c)
    /\ cur' = Len(configs) + 1
    /\ UNCHANGED <<disk, alias, tmplExists, tmplContent, lavasTmpl, lavasSkeleton,
                   skeletonEnabled, watchers, cbs, call>>

\* ------------------------------------------------------------- validateSkeletonRoutes
\* Mutant of IsMissing: the componentPath check of line 262 is dropped.
IsMissingNever(route) == FALSE

IsMissing(route) == route.componentPath = <<>>

\* Mutant of ResolvedPaths: the alias candidate is forgotten.
ResolvedPathsRootOnly(al, componentPath) == << join(rootDir, componentPath) >>

\* Mutant of ResolvedPaths: the two candidates are swapped.
ResolvedPathsAliasFirst(al, componentPath) ==
    << resolveAliasPath(al, componentPath), join(rootDir, componentPath) >>

ResolvedPaths(al, componentPath) ==
    << join(rootDir, componentPath), resolveAliasPath(al, componentPath) >>

\* The top of iteration i of the loop over routes, up to the next suspension
\* (the first pathExists of the route) or the return.
ValEnter(c, rs, i) ==
    IF i > Len(rs)
    THEN [c EXCEPT !.pc = "sk_validated", !.error = NoError, !.i = i]
    ELSE IF IsMissing(rs[i])
    THEN [c EXCEPT !.pc = "sk_validated", !.error = RequiredMsg(rs[i]), !.i = i]
    ELSE [c EXCEPT !.pc = "val_exists", !.i = i, !.j = 1,
                   !.resolvedPaths = ResolvedPaths(alias, rs[i].componentPath)]

\* Mutant of OnUnresolved: the return of line 283 is missing and the loop goes on.
OnUnresolvedContinue(c, rs) == ValEnter(c, rs, c.i + 1)

\* Neither candidate of route i exists.
OnUnresolved(c, rs) ==
    [c EXCEPT !.pc = "sk_validated", !.error = NotExistedMsg(rs[c.i])]

\* pathExists(resolvedPaths[j]) of route i has answered.
ValExists(p) ==
    LET c == call[p]
        rs == configs[c.skCfg].routes
    IN  /\ c.pc = "val_exists"
        /\ IF c.resolvedPaths[c.j] \in disk
           THEN LET rs2 == [rs EXCEPT ![c.i].componentPath = c.resolvedPaths[c.j]]
                IN  /\ configs' = [configs EXCEPT ![c.skCfg].routes = rs2]
                    /\ call' = [call EXCEPT ![p] = ValEnter(c, rs2, c.i + 1)]
           ELSE /\ UNCHANGED configs
                /\ IF c.j < Len(c.resolvedPaths)
                   THEN call' = [call EXCEPT ![p].j = c.j + 1]
                   ELSE call' = [call EXCEPT ![p] = OnUnresolved(c, rs)]
        /\ UNCHANGED <<disk, alias, tmplExists, tmplContent, lavasTmpl, lavasSkeleton, cur,
                       skeletonEnabled, watchers, cbs>>

\* ------------------------------------------------------------- createSPAConfig
\* Lines 298-319: up to the pathExists of the custom template.  The caller
\* awaits each call before it makes the next one; calls are numbered in the
\* order they are made.
Start(p) ==
    /\ call[p].pc = "idle"
    /\ \A q \in Procs : ~InFlight(q)
    /\ IF p = 1 THEN TRUE ELSE call[p - 1].pc # "idle"
    /\ \E w \in BOOLEAN :
         LET c0 == [call[p] EXCEPT !.watcherEnabled = w, !.cfg = cur,
                                   !.plugins = ClientPlugins, !.entry = {}]
         IN  call' = [call EXCEPT ![p] =
                 IF configs[cur].ssr
                 THEN Settle(c0, "resolved", "spaConfig")
                 ELSE [c0 EXCEPT !.pc = "html_exists", !.entry = {ClientEntry}]]
    /\ UNCHANGED <<disk, alias, tmplExists, tmplContent, lavasTmpl, lavasSkeleton, configs, cur,
                   skeletonEnabled, watchers, cbs>>

\* Mutant of TemplateMissing: the existence check of line 154 is dropped.
TemplateMissingIgnored == FALSE

TemplateMissing == ~tmplExists

\* addHtmlPlugin, line 154: pathExists(customTemplatePath) has answered.
HtmlExists(p) ==
    /\ call[p].pc = "html_exists"
    /\ call' = [call EXCEPT ![p] =
           IF TemplateMissing
           THEN Settle(@, "rejected", "TEMPLATE_HTML required")
           ELSE [@ EXCEPT !.pc = "html_read"]]
    /\ UNCHANGED <<disk, alias, tmplExists, tmplContent, lavasTmpl, lavasSkeleton, configs, cur,
                   skeletonEnabled, watchers, cbs>>

\* Mutant of AfterHtmlRead: the plugin is added without awaiting the write.
AfterHtmlReadAddsPlugin(c) ==
    [c EXCEPT !.pc = "html_write", !.tmplRead = tmplContent,
              !.plugins = <<"html">> \o c.plugins]

AfterHtmlRead(c) == [c EXCEPT !.pc = "html_write", !.tmplRead = tmplContent]

\* addHtmlPlugin, line 161: readFile has answered, writeFile is issued.
HtmlRead(p) ==
    /\ call[p].pc = "html_read"
    /\ call' = [call EXCEPT ![p] = AfterHtmlRead(@)]
    /\ UNCHANGED <<disk, alias, tmplExists, tmplContent, lavasTmpl, lavasSkeleton, configs, cur,
                   skeletonEnabled, watchers, cbs>>

\* Mutant of unshiftHtml: push instead of unshift.
pushHtml(plugins) == plugins \o <<"html">>

unshiftHtml(plugins) == <<"html">> \o plugins

\* addHtmlPlugin, lines 159-189: the write has completed; the plugin is added
\* and the watcher registered.
HtmlWritten(p) ==
    LET c == call[p]
    IN  /\ c.pc = "html_write"
        /\ lavasTmpl' = c.tmplRead
        /\ watchers' = IF c.watcherEnabled THEN watchers + 1 ELSE watchers
        /\ call' = [call EXCEPT ![p] =
               [c EXCEPT !.pc = "html_done", !.wroteTmpl = TRUE,
                         !.plugins = unshiftHtml(c.plugins),
                         !.addedWatcher = c.watcherEnabled]]
        /\ UNCHANGED <<disk, alias, tmplExists, tmplContent, lavasSkeleton, configs, cur,
                       skeletonEnabled, cbs>>

\* createSPAConfig line 322 and addSkeletonPlugin lines 198-212: `skeleton` of
\* line 322 is the one read at line 298, `skeleton` of line 198 is read anew.
AddSkeleton(p) ==
    LET c == call[p]
    IN  /\ c.pc = "html_done"
        /\ IF configs[c.cfg].skeleton # "on"
           THEN /\ call' = [call EXCEPT ![p] = Settle(c, "resolved", "spaConfig")]
                /\ UNCHANGED configs
           ELSE IF configs[cur].skeleton = "undefined"
           THEN /\ call' = [call EXCEPT ![p] = Settle(c, "rejected", "TypeError")]
                /\ UNCHANGED configs
           ELSE LET rs == IF Len(configs[cur].routes) = 0 THEN DefaultRoutes
                          ELSE configs[cur].routes
                    c1 == [c EXCEPT !.skCfg = cur, !.entryRoutes = rs,
                                    !.validations = c.validations + 1]
                IN  /\ configs' = [configs EXCEPT ![cur].routes = rs]
                    /\ call' = [call EXCEPT ![p] = ValEnter(c1, rs, 1)]
        /\ UNCHANGED <<disk, alias, tmplExists, tmplContent, lavasTmpl, lavasSkeleton, cur,
                       skeletonEnabled, watchers, cbs>>

\* Mutant of HasError: the returned descriptor is not looked at.
HasErrorNever(error) == FALSE

HasError(error) == error # NoError

\* addSkeletonPlugin lines 213-227: validateSkeletonRoutes has returned.
SkValidated(p) ==
    LET c == call[p]
        rs == configs[c.skCfg].routes
    IN  /\ c.pc = "sk_validated"
        /\ IF HasError(c.error)
           THEN /\ call' = [call EXCEPT ![p] =
                       Settle([c EXCEPT !.logged = Append(c.logged, c.error)],
                              "resolved", "spaConfig")]
                /\ UNCHANGED <<configs, skeletonEnabled>>
           ELSE /\ configs' = [configs EXCEPT ![c.skCfg].routes =
                       [k \in 1..Len(rs) |->
                           [rs[k] EXCEPT !.componentName = basename(rs[k].componentPath)]]]
                /\ skeletonEnabled' = TRUE
                /\ call' = [call EXCEPT ![p] =
                       [c EXCEPT !.pc = "sk_read", !.markedSupported = TRUE]]
        /\ UNCHANGED <<disk, alias, tmplExists, tmplContent, lavasTmpl, lavasSkeleton, cur,
                       watchers, cbs>>

\* writeSkeletonEntry line 137: readFile of the entry template has answered;
\* the entry is rendered from the routes and writeFile is issued.
SkRead(p) ==
    LET c == call[p]
        rs == configs[c.skCfg].routes
    IN  /\ c.pc = "sk_read"
        /\ call' = [call EXCEPT ![p] =
               [c EXCEPT !.pc = "sk_write",
                         !.skRead = [k \in 1..Len(rs) |-> rs[k].componentName]]]
        /\ UNCHANGED <<disk, alias, tmplExists, tmplContent, lavasTmpl, lavasSkeleton, configs,
                       cur, skeletonEnabled, watchers, cbs>>

pushSkeleton(plugins) == plugins \o <<"skeleton">>

\* addSkeletonPlugin lines 227-244: the entry is written, the plugin added.
SkWritten(p) ==
    LET c == call[p]
    IN  /\ c.pc = "sk_write"
        /\ lavasSkeleton' = <<"skeleton.js">> \o c.skRead
        /\ call' = [call EXCEPT ![p] =
               Settle([c EXCEPT !.wroteSkeleton = TRUE, !.plugins = pushSkeleton(c.plugins)],
                      "resolved", "spaConfig")]
        /\ UNCHANGED <<disk, alias, tmplExists, tmplContent, lavasTmpl, configs, cur,
                       skeletonEnabled, watchers, cbs>>

\* ------------------------------------------------------------- the template watcher
\* The watched custom template is edited: every registered 'change' callback
\* starts (lines 183-188) and suspends at its readFile.
EditTemplate(v) ==
    /\ watchers > 0
    /\ v # tmplContent
    /\ Len(cbs) + watchers <= MaxCallbacks
    /\ tmplContent' = v
    /\ cbs' = cbs \o [k \in 1..watchers |-> [pc |-> "read", content |-> 0]]
    /\ UNCHANGED <<disk, alias, tmplExists, lavasTmpl, lavasSkeleton, configs, cur,
                   skeletonEnabled, watchers, call>>

CbRead(k) ==
    /\ cbs[k].pc = "read"
    /\ cbs' = [cbs EXCEPT ![k] = [pc |-> "write", content |-> tmplContent]]
    /\ UNCHANGED <<disk, alias, tmplExists, tmplContent, lavasTmpl, lavasSkeleton, configs, cur,
                   skeletonEnabled, watchers, call>>

CbWritten(k) ==
    /\ cbs[k].pc = "write"
    /\ lavasTmpl' = cbs[k].content
    /\ cbs' = [n \in 1..(Len(cbs) - 1) |-> IF n < k THEN cbs[n] ELSE cbs[n + 1]]
    /\ UNCHANGED <<disk, alias, tmplExists, tmplContent, lavasSkeleton, configs, cur,
                   skeletonEnabled, watchers, call>>

\* ------------------------------------------------------------- specifications
Step(p) ==
    \/ HtmlExists(p)
    \/ HtmlRead(p)
    \/ HtmlWritten(p)
    \/ AddSkeleton(p)
    \/ ValExists(p)
    \/ SkValidated(p)
    \/ SkRead(p)
    \/ SkWritten(p)

Env ==
    \/ \E c \in Configs : init(c)
    \/ \E v \in 1..MaxVersion : EditTemplate(v)
    \/ \E k \in 1..Len(cbs) : CbRead(k)
    \/ \E k \in 1..Len(cbs) : CbWritten(k)

Next ==
    \/ \E p \in Procs : Start(p)
    \/ \E p \in Procs : Step(p)
    \/ Env

Spec == Init /\ [][Next]_vars

\* ------------------------------------------------------------- properties
RootCandidate(cp) == rootDir \o cp

AliasCandidate(cp) == resolveAliasPath(alias, cp)

Fails(route) ==
    \/ route.componentPath = <<>>
    \/ /\ RootCandidate(route.componentPath) \notin disk
       /\ AliasCandidate(route.componentPath) \notin disk

FirstExisting(cp) ==
    IF RootCandidate(cp) \in disk THEN RootCandidate(cp) ELSE AliasCandidate(cp)

FailingIndexes(rs) == { k \in 1..Len(rs) : Fails(rs[k]) }

FirstFailing(rs) == CHOOSE k \in FailingIndexes(rs) : \A n \in FailingIndexes(rs) : k <= n

\* validateSkeletonRoutes has just returned to addSkeletonPlugin in call p.
Returned(p) == call[p].pc = "sk_validated"

RoutesOf(p) == configs[call[p].skCfg].routes

\* C1: a route list with a route whose componentPath is missing never
\* validates: the returned descriptor has a non-empty msg, and it is the
\* 'componentPath for <path> is required' one when that route is the first
\* failing route.
C1_MissingComponentPathFails ==
    \A p \in Procs :
        LET rs == call[p].entryRoutes
        IN  (Returned(p) /\ \E k \in 1..Len(rs) : rs[k].componentPath = <<>>)
            => /\ call[p].error # <<>>
               /\ rs[FirstFailing(rs)].componentPath = <<>>
                  => call[p].error
                     = <<"componentPath is required for", rs[FirstFailing(rs)].path>>

C1_Witness ==
    \E p \in Procs :
        /\ Returned(p)
        /\ Len(call[p].entryRoutes) = 2
        /\ call[p].entryRoutes[2].componentPath = <<>>
        /\ call[p].error = <<"componentPath is required for", "/r2">>
        /\ RoutesOf(p)[1].componentPath \in disk

\* C2: validateSkeletonRoutes returns false exactly when every route has a
\* componentPath of which the rootDir candidate or the alias candidate exists.
C2_ValidIffEveryRouteResolves ==
    \A p \in Procs :
        Returned(p)
        => (call[p].error = <<>>
            <=> \A k \in 1..Len(call[p].entryRoutes) : ~Fails(call[p].entryRoutes[k]))

C2_Witness ==
    \E p \in Procs :
        /\ Returned(p)
        /\ call[p].error = <<>>
        /\ \E k \in 1..Len(call[p].entryRoutes) :
             LET cp == call[p].entryRoutes[k].componentPath
             IN  /\ RootCandidate(cp) \notin disk
                 /\ AliasCandidate(cp) \in disk
                 /\ AliasCandidate(cp) # cp

\* C3: after validateSkeletonRoutes returned false every route's componentPath
\* is the first existing candidate in the order rootDir candidate, alias
\* candidate, and so a path that exists on disk.
C3_StoresFirstExistingCandidate ==
    \A p \in Procs :
        (Returned(p) /\ call[p].error = <<>>)
        => \A k \in 1..Len(call[p].entryRoutes) :
             /\ RoutesOf(p)[k].componentPath
                = FirstExisting(call[p].entryRoutes[k].componentPath)
             /\ RoutesOf(p)[k].componentPath \in disk

C3_Witness ==
    \E p \in Procs :
        /\ Returned(p)
        /\ call[p].error = <<>>
        /\ \E k \in 1..Len(call[p].entryRoutes) :
             LET cp == call[p].entryRoutes[k].componentPath
             IN  /\ RootCandidate(cp) \in disk
                 /\ AliasCandidate(cp) \in disk
                 /\ RootCandidate(cp) # AliasCandidate(cp)
                 /\ RoutesOf(p)[k].componentPath = RootCandidate(cp)

ComponentAbsent(cfg) ==
    LET rs == IF Len(cfg.routes) = 0 THEN DefaultRoutes ELSE cfg.routes
    IN  \E k \in 1..Len(rs) : Fails(rs[k])

\* The case of C4: ssr off, skeleton enabled, template and a component absent.
BothAbsent(p) ==
    /\ call[p].pc # "idle"
    /\ ~configs[call[p].cfg].ssr
    /\ configs[call[p].cfg].skeleton = "on"
    /\ ~tmplExists
    /\ ComponentAbsent(configs[call[p].cfg])

\* C4: with the template and a skeleton component both absent, createSPAConfig
\* rejects with the template error and never starts the route validation: no
\* component-path error is returned or logged.
C4_TemplateErrorComesFirst ==
    \A p \in Procs :
        BothAbsent(p)
        => /\ call[p].pc \in {"html_exists", "rejected"}
           /\ call[p].pc = "rejected" => call[p].result = "TEMPLATE_HTML required"
           /\ call[p].validations = 0
           /\ call[p].error = <<>>
           /\ call[p].logged = <<>>

C4_Witness ==
    \E p \in Procs : BothAbsent(p) /\ call[p].pc = "rejected"

\* C5: a validation error is only logged: one validation, no throw, no
\* skeleton entry written, plugins as addHtmlPlugin left them, skeletonEnabled
\* not set by the call, and createSPAConfig resolves with the SPA config.
C5_ValidationErrorOnlyLogged ==
    \A p \in Procs :
        call[p].error # <<>>
        => /\ call[p].pc \in {"sk_validated", "resolved"}
           /\ call[p].validations = 1
           /\ ~call[p].wroteSkeleton
           /\ ~call[p].markedSupported
           /\ call[p].plugins = <<"html", "client">>
           /\ call[p].pc = "sk_validated" => call[p].logged = <<>>
           /\ call[p].pc = "resolved"
              => call[p].result = "spaConfig" /\ call[p].logged = <<call[p].error>>

C5_Witness ==
    \E p \in Procs :
        /\ call[p].pc = "resolved"
        /\ call[p].error # <<>>
        /\ call[p].logged = <<call[p].error>>
        /\ ~skeletonEnabled
        /\ lavasSkeleton = <<>>

\* What an operation in flight has written or is writing.
CallWrites(p) ==
    (IF call[p].pc = "html_write" \/ call[p].wroteTmpl THEN {"lavasTmpl"} ELSE {})
    \cup (IF call[p].pc = "sk_write" THEN {"lavasSkeleton"} ELSE {})
    \cup (IF call[p].markedSupported THEN {"skeletonEnabled"} ELSE {})

CallbackWrites(k) == IF cbs[k].pc = "write" THEN {"lavasTmpl"} ELSE {}

\* C6: no two operations in flight at the same time write the same state.
C6_NoSharedWrites ==
    /\ \A p \in Procs, k \in 1..Len(cbs) :
          InFlight(p) => CallWrites(p) \cap CallbackWrites(k) = {}
    /\ \A k, n \in 1..Len(cbs) :
          k # n => CallbackWrites(k) \cap CallbackWrites(n) = {}
    /\ \A p, q \in Procs :
          (p # q /\ InFlight(p) /\ InFlight(q)) => CallWrites(p) \cap CallWrites(q) = {}

\* C7: addHtmlPlugin throws on a missing template before any effect (nothing
\* written to .lavas, plugins untouched, no watcher even when asked for); when
\* it succeeds the plugin is added after the template write completed and the
\* watcher is registered after the plugin was added.
C7_HtmlPluginEffectsOrdered ==
    /\ ~tmplExists => (lavasTmpl = 0 /\ lavasSkeleton = <<>> /\ watchers = 0)
    /\ \A p \in Procs :
         /\ (call[p].pc = "rejected" /\ call[p].result = "TEMPLATE_HTML required")
            => /\ ~call[p].wroteTmpl
               /\ call[p].plugins = <<"client">>
               /\ ~call[p].addedWatcher
         /\ (\E n \in 1..Len(call[p].plugins) : call[p].plugins[n] = "html")
            => call[p].wroteTmpl /\ lavasTmpl # 0
         /\ call[p].addedWatcher
            => /\ call[p].watcherEnabled
               /\ \E n \in 1..Len(call[p].plugins) : call[p].plugins[n] = "html"

C7_Witness ==
    \E p \in Procs :
        /\ call[p].pc = "rejected"
        /\ call[p].result = "TEMPLATE_HTML required"
        /\ call[p].watcherEnabled
        /\ watchers = 0
        /\ lavasTmpl = 0

\* C8: validateSkeletonRoutes stops at the first failing route: the error is
\* that route's, no route at or after it is changed, every route before it
\* holds its resolved path.
C8_StopsAtFirstFailingRoute ==
    \A p \in Procs :
        (Returned(p) /\ call[p].error # <<>>)
        => LET rs == call[p].entryRoutes
               f == FirstFailing(rs)
           IN  /\ FailingIndexes(rs) # {}
               /\ call[p].error
                  = IF rs[f].componentPath = <<>>
                    THEN <<"componentPath is required for", rs[f].path>>
                    ELSE <<"is not existed">> \o rs[f].componentPath
               /\ \A k \in f..Len(rs) : RoutesOf(p)[k] = rs[k]
               /\ \A k \in 1..(f - 1) :
                    RoutesOf(p)[k].componentPath = FirstExisting(rs[k].componentPath)

C8_Witness ==
    \E p \in Procs :
        /\ Returned(p)
        /\ call[p].error = <<"is not existed", "B.vue">>
        /\ Len(call[p].entryRoutes) = 2
        /\ RoutesOf(p)[1].componentPath # call[p].entryRoutes[1].componentPath
        /\ RoutesOf(p)[2] = call[p].entryRoutes[2]

Has(plugins, name) == \E n \in 1..Len(plugins) : plugins[n] = name

\* C9: createSPAConfig with ssr on returns an empty entry, adds no plugin and
\* writes and validates nothing; with ssr off a resolved call has exactly the
\* default client entry, the html plugin first, and the skeleton plugin (last)
\* exactly when the skeleton is enabled and the validation, run on a non-empty
\* route list, succeeded.
C9_ConditionalComposition ==
    \A p \in Procs :
        LET c == call[p]
        IN  c.pc = "resolved"
            => IF configs[c.cfg].ssr
               THEN /\ c.entry = {}
                    /\ c.plugins = <<"client">>
                    /\ ~c.wroteTmpl /\ ~c.wroteSkeleton /\ c.validations = 0
               ELSE /\ c.entry = {<<"DEFAULT_ENTRY_NAME", "./core/entry-client.js">>}
                    /\ c.plugins[1] = "html"
                    /\ Cardinality({n \in 1..Len(c.plugins) : c.plugins[n] = "html"}) = 1
                    /\ Has(c.plugins, "skeleton")
                       <=> /\ configs[c.cfg].skeleton = "on"
                           /\ c.validations = 1
                           /\ c.error = <<>>
                    /\ Has(c.plugins, "skeleton")
                       => c.plugins[Len(c.plugins)] = "skeleton"
                    /\ c.validations = 1 => Len(configs[c.skCfg].routes) > 0

C9_Witness ==
    \E p \in Procs :
        /\ call[p].pc = "resolved"
        /\ call[p].plugins = <<"html", "client", "skeleton">>
        /\ Len(RoutesOf(p)) = 1
        /\ RoutesOf(p)[1].path = "*"

\* C10: skeletonEnabled becomes true only where addSkeletonPlugin continues
\* after a successful validation, and no operation resets it.
C10_SkeletonEnabledIsSticky ==
    [][ /\ skeletonEnabled => skeletonEnabled'
        /\ (~skeletonEnabled /\ skeletonEnabled')
           => \E p \in Procs :
                /\ call[p].pc = "sk_validated"
                /\ call[p].error = <<>>
                /\ call'[p].pc = "sk_read" ]_vars

C10_Witness ==
    /\ skeletonEnabled
    /\ Len(configs) = 2
    /\ \E p, q \in Procs :
         /\ q < p
         /\ call[q].markedSupported
         /\ call[p].pc = "resolved"
         /\ call[p].cfg = 2
         /\ call[p].error # <<>>
====
